---- MODULE Spec2Model ----
(***************************************************************************)
(* Model of the VideoModal component (src/unnamed/part_010, lines 712 to   *)
(* 1221): the media controller, the requestAnimationFrame progress loop,   *)
(* the caption selector and the favorite toggle, and of the state of the   *)
(* favorites page (src/src/pages/FavoritesPage.tsx) that hosts the modal   *)
(* and listens to its favorite changes.                                    *)
(*                                                                         *)
(* React state lives in the record ui; the closure captured by the keydown *)
(* listener lives in hk and is replaced only when one of the dependencies  *)
(* of its effect changes.  Every action is one handler run to completion   *)
(* together with the render and the effects that follow it.                *)
(***************************************************************************)
EXTENDS Integers, Sequences, FiniteSets, TLC

\* ---------------------------------------------------------------- bounds
MaxDuration == 11
PosStep == 5
PctDen == 2
MaxRafId == 3
MaxFavId == 3
\* create and delete requests in flight at once, the status request apart
MaxInflight == 1

\* ------------------------------------------------------ program constants
SkipSeconds == 10

Langs == {"es", "en"}
NoLang == "null"
NoId == 0

VARIABLES
  mounted,        \* "no" before mount, "yes" while mounted, "gone" after unmount
  ui,             \* the useState values of the component
  hk,             \* the state captured by the registered handleKey closure
  video,          \* the HTMLVideoElement: paused, currentTime, duration, metaLoaded
  textTracks,     \* mode of the es and en text tracks of the video
  rafRef,         \* rafRef.current, 0 for null
  rafPending,     \* animation-frame callbacks the browser still holds
  mediaListeners, \* loadedmetadata / timeupdate / ended listeners attached
  keyListener,    \* keydown listener attached
  posterTimeout,  \* the 8 s fallback timer is pending
  closeCalls,     \* number of onClose() calls
  subFetch,       \* progress of fetchSubtitles: which await it is at, what it got
  blobUrls,       \* languages whose blob URL was created and not yet revoked
  userId,         \* the id read from localStorage 'user', NoId when there is none
  onFavoriteChange, \* the host's listener: "absent", "returns" or "throws"
  store,          \* ids of the favorite records of (user, movie) in the remote store
  nextFavId,      \* the id the store gives to the next record it creates
  requests,       \* favorite requests in flight, with what their caller saw
  videos,         \* FavoritesPage: favoriteId of the list entries of the movie
  removedDuringModal, \* FavoritesPage: the movie is marked for removal at close
  otherModal,     \* FavoritesPage: the modal of another list entry is open
  lastNotified,   \* the isFavorite of the last listener call, "none" before any
  anyFailure,     \* a favorite request has settled with a failure
  lastOp,         \* the last operation, for the claims that speak of one
  lateWrite       \* a setCurrent ran after the component unmounted

vars == <<mounted, ui, hk, video, textTracks, rafRef, rafPending,
          mediaListeners, keyListener, posterTimeout, closeCalls, subFetch,
          blobUrls, userId, onFavoriteChange, store, nextFavId, requests,
          videos, removedDuringModal, otherModal, lastNotified, anyFailure,
          lastOp, lateWrite>>

\* the user, the listener the host passes and the remote store
remote == <<userId, onFavoriteChange, store, nextFavId>>

\* the state of the favorites page
page == <<videos, removedDuringModal, otherModal>>

\* what the continuations of the favorite requests have done so far
hist == <<lastNotified, anyFailure>>

\* the remote store and the host, which no handler of the modal writes directly
env == <<remote, page, hist>>

Min(a, b) == IF a < b THEN a ELSE b
Max(a, b) == IF a > b THEN a ELSE b

\* the durations a media resource may report once its metadata is loaded
Durations == {MaxDuration - 1, MaxDuration}

\* useState defaults, and the onClose prop of the first render: onClose
\* stands for the removedDuringModal the handleModalClose closure holds
InitialState ==
  [isPlaying |-> TRUE, isFavorite |-> FALSE, favoriteId |-> NoId,
   current |-> 0, duration |-> 0, loadingPoster |-> TRUE,
   captionsEnabled |-> FALSE, showSubtitleMenu |-> FALSE,
   selectedSubtitle |-> NoLang, subtitleUrls |-> {},
   loadingSubtitles |-> FALSE, onClose |-> FALSE]

\* FavoritesPage is the one host that passes onFavoriteChange
FavoritesHost == onFavoriteChange = "returns"

\* dependency list of the handleKey effect
HandleKeyDeps(s) == <<s.isPlaying, s.isFavorite, s.showSubtitleMenu>>

\* the closure the keydown listener holds after a render from s to t
HandleKeyEffect(s, t, k) == IF HandleKeyDeps(s) # HandleKeyDeps(t) THEN t ELSE k

\* dependency list of the animation-frame effect
RafDeps(s) == <<s.isPlaying, s.duration>>

\* requestAnimationFrame: a handle the browser does not hold at the moment
RequestAnimationFrame(pending) ==
  IF \A id \in 1..MaxRafId : id \in pending
    THEN MaxRafId
    ELSE CHOOSE id \in 1..MaxRafId : id \notin pending /\ \A j \in 1..(id - 1) : j \in pending

\* cancelAnimationFrame(rafRef.current) of the effect cleanup
RafCleanupNoCancel(ref, pending) == pending
RafCleanup(ref, pending) == IF ref # 0 THEN pending \ {ref} ELSE pending

\* video.play(): started, or rejected by the browser and left paused
Play(v, allowed) == IF allowed THEN [v EXCEPT !.paused = FALSE] ELSE v

\* body of the animation-frame effect: does it schedule tick
RafEffectSchedulesPlayingOnly(paused, isPlaying) == ~paused /\ isPlaying
RafEffectSchedules(paused, isPlaying) ==
  (~paused /\ isPlaying) \/ (isPlaying /\ paused)

\* The render that follows a handler: s is the state before, t after, v the
\* video element as the handler left it.  Runs the cleanup and the body of the
\* animation-frame effect when its dependencies changed and refreshes the
\* keydown closure when its dependencies changed.
Render(s, t, v, allowed) ==
  /\ ui' = t
  /\ hk' = HandleKeyEffect(s, t, hk)
  /\ IF RafDeps(s) # RafDeps(t)
       THEN LET cleaned == RafCleanup(rafRef, rafPending)
                id == RequestAnimationFrame(cleaned)
            IN /\ video' = IF t.isPlaying /\ v.paused THEN Play(v, allowed) ELSE v
               /\ IF RafEffectSchedules(v.paused, t.isPlaying)
                    THEN rafRef' = id /\ rafPending' = cleaned \cup {id}
                    ELSE rafRef' = 0 /\ rafPending' = cleaned
       ELSE /\ video' = v
            /\ UNCHANGED <<rafRef, rafPending>>

\* the GET /favorites/user/:userId that fetchFavoriteStatus sends
StatusRequest ==
  [kind |-> "status", id |-> NoId, seen |-> <<FALSE, NoId>>, phase |-> "sent",
   ok |-> FALSE, result |-> NoId]

Init ==
  /\ mounted = "no"
  /\ ui = InitialState
  /\ hk = InitialState
  /\ video = [paused |-> TRUE, currentTime |-> 0, duration |-> 0, metaLoaded |-> FALSE]
  /\ textTracks = [l \in Langs |-> "absent"]
  /\ rafRef = 0
  /\ rafPending = {}
  /\ mediaListeners = FALSE
  /\ keyListener = FALSE
  /\ posterTimeout = FALSE
  /\ closeCalls = 0
  /\ subFetch = [at |-> "idle", en |-> FALSE]
  /\ blobUrls = {}
  /\ userId \in {NoId, 1}
  /\ onFavoriteChange \in {"absent", "returns", "throws"}
  /\ store \in {{}, {1}}
  /\ nextFavId = 2
  /\ requests = <<>>
  /\ videos = IF FavoritesHost THEN store ELSE {}
  /\ removedDuringModal = FALSE
  /\ otherModal = FALSE
  /\ lastNotified = "none"
  /\ anyFailure = FALSE
  /\ lastOp = <<"init">>
  /\ lateWrite = FALSE

\* first commit: the effects of lines 765-972 run once, in order
Mount ==
  /\ mounted = "no"
  /\ mounted' = "yes"
  /\ \E allowed \in BOOLEAN :
       LET id == RequestAnimationFrame(rafPending)
       IN /\ video' = IF ui.isPlaying /\ video.paused THEN Play(video, allowed) ELSE video
          /\ IF RafEffectSchedules(video.paused, ui.isPlaying)
               THEN rafRef' = id /\ rafPending' = rafPending \cup {id}
               ELSE UNCHANGED <<rafRef, rafPending>>
  /\ ui' = [ui EXCEPT !.loadingSubtitles = TRUE]
  /\ subFetch' = [at |-> "en", en |-> FALSE]
  /\ requests' = IF userId # NoId THEN <<StatusRequest>> ELSE <<>>
  /\ hk' = ui
  /\ keyListener' = TRUE
  /\ mediaListeners' = TRUE
  /\ posterTimeout' = TRUE
  /\ lastOp' = <<"mount">>
  /\ UNCHANGED <<textTracks, closeCalls, blobUrls, env, lateWrite>>

\* 'loadedmetadata': onLoaded, whose closure holds the isPlaying of the first render
OnLoaded ==
  /\ mounted = "yes" /\ mediaListeners /\ ~video.metaLoaded
  /\ \E d \in Durations, allowed \in BOOLEAN :
       LET v0 == [video EXCEPT !.duration = d, !.metaLoaded = TRUE]
           v1 == IF v0.paused /\ InitialState.isPlaying THEN Play(v0, allowed) ELSE v0
           t == [ui EXCEPT !.duration = v0.duration, !.loadingPoster = FALSE]
       IN Render(ui, t, v1, allowed)
  /\ lastOp' = <<"loadedmetadata">>
  /\ UNCHANGED <<mounted, textTracks, mediaListeners, keyListener, posterTimeout,
                 closeCalls, subFetch, blobUrls, env, requests, lateWrite>>

\* 'timeupdate': onTime
OnTime ==
  /\ mediaListeners
  /\ ui' = [ui EXCEPT !.current = video.currentTime]
  /\ lateWrite' = (lateWrite \/ mounted = "gone")
  /\ lastOp' = <<"timeupdate">>
  /\ UNCHANGED <<mounted, hk, video, textTracks, rafRef, rafPending, mediaListeners,
                 keyListener, posterTimeout, closeCalls, subFetch, blobUrls, env, requests>>

\* one animation frame: tick
Tick ==
  /\ \E id \in rafPending :
       LET rest == rafPending \ {id}
           next == RequestAnimationFrame(rest)
       IN /\ rafRef' = next
          /\ rafPending' = rest \cup {next}
  /\ ui' = [ui EXCEPT !.current = video.currentTime]
  /\ lateWrite' = (lateWrite \/ mounted = "gone")
  /\ lastOp' = <<"tick">>
  /\ UNCHANGED <<mounted, hk, video, textTracks, mediaListeners, keyListener,
                 posterTimeout, closeCalls, subFetch, blobUrls, env, requests>>

\* the media plays on by itself
Advance ==
  /\ mounted = "yes" /\ video.metaLoaded /\ ~video.paused
  /\ video.currentTime < video.duration
  /\ video' = [video EXCEPT !.currentTime = Min(video.currentTime + PosStep, video.duration)]
  /\ lastOp' = <<"advance">>
  /\ UNCHANGED <<mounted, ui, hk, textTracks, rafRef, rafPending, mediaListeners,
                 keyListener, posterTimeout, closeCalls, subFetch, blobUrls, env, requests, lateWrite>>

\* 'ended': the element pauses itself, onEnd clears isPlaying
OnEnd ==
  /\ mounted = "yes" /\ mediaListeners
  /\ video.metaLoaded /\ ~video.paused /\ video.currentTime = video.duration
  /\ Render(ui, [ui EXCEPT !.isPlaying = FALSE], [video EXCEPT !.paused = TRUE], FALSE)
  /\ lastOp' = <<"ended">>
  /\ UNCHANGED <<mounted, textTracks, mediaListeners, keyListener, posterTimeout,
                 closeCalls, subFetch, blobUrls, env, requests, lateWrite>>

\* the callback of the fallback timer: its closure holds the loadingPoster of
\* the first render
PosterCallbackNoClear(s) == s
PosterCallback(s) ==
  IF InitialState.loadingPoster THEN [s EXCEPT !.loadingPoster = FALSE] ELSE s

\* the 8 s fallback timer of the media effect
PosterTimeout ==
  /\ posterTimeout
  /\ posterTimeout' = FALSE
  /\ Render(ui, PosterCallback(ui), video, FALSE)
  /\ lastOp' = <<"posterTimeout">>
  /\ UNCHANGED <<mounted, textTracks, mediaListeners, keyListener, closeCalls, subFetch, blobUrls, env, requests, lateWrite>>

\* play button, Space, K
togglePlay ==
  /\ mounted = "yes"
  /\ \E allowed \in BOOLEAN :
       IF video.paused
         THEN Render(ui, [ui EXCEPT !.isPlaying = TRUE], Play(video, allowed), allowed)
         ELSE Render(ui, [ui EXCEPT !.isPlaying = FALSE], [video EXCEPT !.paused = TRUE], allowed)
  /\ lastOp' = <<"togglePlay">>
  /\ UNCHANGED <<mounted, textTracks, mediaListeners, keyListener, posterTimeout,
                 closeCalls, subFetch, blobUrls, env, requests, lateWrite>>

\* the duration a seek handler reads: the button holds the closure of the
\* last render, the keydown listener the one its effect captured
ClosureDuration(src) == IF src = "key" THEN hk.duration ELSE ui.duration

ForwardTargetNoClamp(t, d) == t + SkipSeconds
ForwardTarget(t, d) == Min(t + SkipSeconds, d)

BackwardTarget(t) == Max(t - SkipSeconds, 0)

\* forward button, ArrowRight, L
handleForward ==
  /\ mounted = "yes"
  /\ \E src \in {"button", "key"} :
       /\ src = "key" => keyListener
       /\ video' = [video EXCEPT !.currentTime = ForwardTarget(video.currentTime, ClosureDuration(src))]
       /\ lastOp' = <<"forward", src, video.currentTime, ui.duration>>
  /\ UNCHANGED <<mounted, ui, hk, textTracks, rafRef, rafPending, mediaListeners,
                 keyListener, posterTimeout, closeCalls, subFetch, blobUrls, env, requests, lateWrite>>

\* back button, ArrowLeft, J
handleBackward ==
  /\ mounted = "yes"
  /\ \E src \in {"button", "key"} :
       /\ src = "key" => keyListener
       /\ video' = [video EXCEPT !.currentTime = BackwardTarget(video.currentTime)]
       /\ lastOp' = <<"backward", src, video.currentTime, ui.duration>>
  /\ UNCHANGED <<mounted, ui, hk, textTracks, rafRef, rafPending, mediaListeners,
                 keyListener, posterTimeout, closeCalls, subFetch, blobUrls, env, requests, lateWrite>>

\* pct of a click at k/PctDen of the bar's width, then pct * duration
ProgressTarget(k, d) == (Max(0, Min(PctDen, k)) * d) \div PctDen

handleProgressClick ==
  /\ mounted = "yes"
  /\ \E k \in 0..PctDen :
       /\ video' = [video EXCEPT !.currentTime = ProgressTarget(k, ui.duration)]
       /\ ui' = [ui EXCEPT !.current = ProgressTarget(k, ui.duration)]
  /\ lastOp' = <<"progressClick">>
  /\ UNCHANGED <<mounted, hk, textTracks, rafRef, rafPending, mediaListeners,
                 keyListener, posterTimeout, closeCalls, subFetch, blobUrls, env, requests, lateWrite>>

\* the cleanup of the fetchSubtitles effect: it revokes the urls of the
\* subtitleUrls its closure holds, those of the render the effect ran in
Revoke(closureUrls, blobs) == blobs \ closureUrls

\* cleanups of the effects, run when the parent removes the component
Cleanups ==
  /\ mounted' = "gone"
  /\ blobUrls' = Revoke(InitialState.subtitleUrls, blobUrls)
  /\ keyListener' = FALSE
  /\ mediaListeners' = FALSE
  /\ posterTimeout' = FALSE
  /\ rafPending' = RafCleanup(rafRef, rafPending)
  /\ rafRef' = 0

\* the parent unmounts the modal without the modal asking for it
Unmount ==
  /\ mounted = "yes"
  /\ Cleanups
  /\ lastOp' = <<"unmount">>
  /\ UNCHANGED <<ui, hk, video, textTracks, closeCalls, subFetch, env, requests, lateWrite>>

\* ------------------------------------------------------------- captions

\* video.textTracks: the <track> children in document order, es before en
TextTrackList(tt) ==
  (IF tt["es"] # "absent" THEN <<"es">> ELSE <<>>) \o
  (IF tt["en"] # "absent" THEN <<"en">> ELSE <<>>)

\* trackIndex of selectSubtitle, zero based as in the source
TrackIndex(lang) == IF lang = "es" THEN 0 ELSE 1

\* the loop that hides every track
HideAllKeepShowing(tt) == tt
HideAll(tt) == [l \in Langs |-> IF tt[l] = "absent" THEN "absent" ELSE "hidden"]

\* does selectSubtitle find video.textTracks[trackIndex]
HasTrack(tt, lang) ==
  lang # NoLang /\ Len(TextTrackList(tt)) > 0 /\ TrackIndex(lang) + 1 <= Len(TextTrackList(tt))

\* the text tracks after selectSubtitle(lang)
SelectTracks(tt, lang) ==
  LET hidden == HideAll(tt)
  IN IF HasTrack(tt, lang)
       THEN [hidden EXCEPT ![TextTrackList(tt)[TrackIndex(lang) + 1]] = "showing"]
       ELSE hidden

\* the menu flag after selectSubtitle
MenuAfterSelectToggled(show) == ~show
MenuAfterSelect(show) == FALSE

\* the React state after selectSubtitle(lang)
SelectState(s, tt, lang) ==
  LET t == [s EXCEPT !.selectedSubtitle = lang,
                     !.showSubtitleMenu = MenuAfterSelect(s.showSubtitleMenu)]
  IN IF lang # NoLang /\ Len(TextTrackList(tt)) > 0
       THEN IF HasTrack(tt, lang) THEN [t EXCEPT !.captionsEnabled = TRUE] ELSE t
       ELSE [t EXCEPT !.captionsEnabled = FALSE]

\* how many times in a row the same selectSubtitle(lang) has now run
Repeat(lang) ==
  IF lastOp[1] = "select" /\ lastOp[2] = lang THEN 2 ELSE 1

\* selectSubtitle(lang), called from a menu option or from the S, D, N keys
selectSubtitle(lang) ==
  /\ textTracks' = SelectTracks(textTracks, lang)
  /\ Render(ui, SelectState(ui, textTracks, lang), video, FALSE)
  /\ lastOp' = <<"select", lang, Repeat(lang)>>
  /\ UNCHANGED <<mounted, mediaListeners, keyListener, posterTimeout, closeCalls,
                 subFetch, blobUrls, env, requests, lateWrite>>

\* the options the open menu renders and lets the user click
MenuOptions(s) ==
  {NoLang} \cup {l \in Langs : l \in s.subtitleUrls /\ ~s.loadingSubtitles}

SelectFromMenu ==
  /\ mounted = "yes" /\ ui.showSubtitleMenu
  /\ \E lang \in MenuOptions(ui) : selectSubtitle(lang)

\* the argument the S and D cases of handleKey pass
KeyLang(k, lang) == IF k.captionsEnabled THEN NoLang ELSE lang

\* the argument of selectSubtitle in the cases S, D and N of the closure k
KeyArg(k, key) ==
  CASE key = "s" -> KeyLang(k, "es")
    [] key = "d" -> KeyLang(k, "en")
    [] OTHER -> NoLang

\* keys S, D and N
SelectByKey ==
  /\ mounted = "yes" /\ keyListener
  /\ \E key \in {"s", "d", "n"} : selectSubtitle(KeyArg(hk, key))

\* captions button, key C
ToggleMenu ==
  /\ mounted = "yes"
  /\ \E src \in {"button", "key"} :
       /\ src = "key" => keyListener
       /\ LET show == IF src = "key" THEN hk.showSubtitleMenu ELSE ui.showSubtitleMenu
          IN Render(ui, [ui EXCEPT !.showSubtitleMenu = ~show], video, FALSE)
       /\ lastOp' = <<"toggleMenu", src>>
  /\ UNCHANGED <<mounted, textTracks, mediaListeners, keyListener, posterTimeout,
                 closeCalls, subFetch, blobUrls, env, requests, lateWrite>>

\* the <track> elements after a render with the given subtitleUrls
TracksFor(tt, urls) ==
  [l \in Langs |-> IF l \notin urls THEN "absent"
                   ELSE IF tt[l] = "absent" THEN "disabled" ELSE tt[l]]

\* the urls fetchSubtitles builds from the two answers: a language gets one
\* when its request returned non-empty text
BuiltUrls(enText, esRes) ==
  (IF enText THEN {"en"} ELSE {}) \cup (IF esRes = "text" THEN {"es"} ELSE {})

\* the urls fetchSubtitles stores: a rejected request lands in the catch block
StoredUrls(enText, esRes) == IF esRes = "fail" THEN {} ELSE BuiltUrls(enText, esRes)

\* setSubtitleUrls and the render of the <track> elements; React drops the
\* update of a component that is gone
StoreUrls(urls) ==
  IF mounted = "yes"
    THEN /\ textTracks' = TracksFor(textTracks, urls)
         /\ Render(ui, [ui EXCEPT !.subtitleUrls = urls, !.loadingSubtitles = FALSE],
                   video, FALSE)
    ELSE UNCHANGED <<ui, hk, video, textTracks, rafRef, rafPending>>

\* the first await of fetchSubtitles settles: the English request
SubtitlesEnSettles ==
  /\ subFetch.at = "en"
  /\ \E res \in {"text", "empty", "fail"} :
       /\ IF res = "fail"
            THEN /\ subFetch' = [at |-> "done", en |-> FALSE]
                 /\ StoreUrls({})
            ELSE /\ subFetch' = [at |-> "es", en |-> (res = "text")]
                 /\ UNCHANGED <<ui, hk, video, textTracks, rafRef, rafPending>>
       /\ lastOp' = <<"subtitles", "en", res, mounted>>
  /\ UNCHANGED <<mounted, mediaListeners, keyListener, posterTimeout, closeCalls,
                 blobUrls, env, requests, lateWrite>>

\* the second await settles: the Spanish request, then the urls are stored
SubtitlesEsSettles ==
  /\ subFetch.at = "es"
  /\ \E res \in {"text", "empty", "fail"} :
       /\ blobUrls' = blobUrls \cup
            (IF res = "fail" THEN {} ELSE BuiltUrls(subFetch.en, res))
       /\ StoreUrls(StoredUrls(subFetch.en, res))
       /\ lastOp' = <<"subtitles", "es", res, mounted>>
  /\ subFetch' = [at |-> "done", en |-> subFetch.en]
  /\ UNCHANGED <<mounted, mediaListeners, keyListener, posterTimeout, closeCalls,
                 env, requests, lateWrite>>

\* ------------------------------------------------------------- closing

\* handleModalClose of FavoritesPage as the closure c holds it: the marked
\* movie leaves the list and the marker is cleared
handleModalClose(c) ==
  /\ videos' = IF FavoritesHost /\ c.onClose THEN {} ELSE videos
  /\ removedDuringModal' = IF FavoritesHost /\ c.onClose THEN FALSE ELSE removedDuringModal

\* onClose() of the closure c: every host clears its selection, which
\* unmounts the modal
Close(how, c) ==
  /\ closeCalls' = closeCalls + 1
  /\ handleModalClose(c)
  /\ Cleanups
  /\ lastOp' = <<"close", how>>
  /\ UNCHANGED <<ui, hk, video, textTracks, subFetch, remote, otherModal, hist,
                 requests, lateWrite>>

\* the Escape case of handleKey: does it call onClose
EscapeAlwaysCloses(k) == TRUE
EscapeCloses(k) == ~k.showSubtitleMenu

Escape ==
  /\ mounted = "yes" /\ keyListener
  /\ IF EscapeCloses(hk)
       THEN Close("escape", hk)
       ELSE /\ Render(ui, [ui EXCEPT !.showSubtitleMenu = FALSE], video, FALSE)
            /\ lastOp' = <<"escape", "menu">>
            /\ UNCHANGED <<mounted, textTracks, mediaListeners, keyListener,
                           posterTimeout, closeCalls, subFetch, blobUrls, env, requests, lateWrite>>

\* the body of handleOverlayClick, for a click event that started at origin
BackdropHandler(origin) ==
  IF ui.showSubtitleMenu
    THEN /\ Render(ui, [ui EXCEPT !.showSubtitleMenu = FALSE], video, FALSE)
         /\ lastOp' = <<origin, "menu">>
         /\ UNCHANGED <<mounted, textTracks, mediaListeners, keyListener,
                        posterTimeout, closeCalls, subFetch, blobUrls, env, requests,
                        lateWrite>>
    ELSE Close(origin, ui)

\* a click on the dimmed backdrop itself
handleOverlayClick ==
  /\ mounted = "yes"
  /\ BackdropHandler("overlay")

\* do the click handlers below the overlay call e.stopPropagation(): the
\* content div (handleContentClick) and the subtitle menu div
StopsPropagationNever(target) == FALSE
StopsPropagation(target) == target \in {"content", "menu"}

\* a click inside the modal content, or inside the open subtitle menu, that
\* hits no control: the event bubbles towards the overlay unless stopped
handleContentClick ==
  /\ mounted = "yes"
  /\ \E target \in {"content"} \cup (IF ui.showSubtitleMenu THEN {"menu"} ELSE {}) :
       IF StopsPropagation(target)
         THEN /\ lastOp' = <<"content", "stopped", target>>
              /\ UNCHANGED <<mounted, ui, hk, video, textTracks, rafRef, rafPending,
                             mediaListeners, keyListener, posterTimeout, closeCalls,
                             subFetch, blobUrls, env, requests, lateWrite>>
         ELSE BackdropHandler("content")

\* the close button, and goToDetails (button or key I) which calls onClose first
CloseButton ==
  /\ mounted = "yes"
  /\ \E how \in {"button", "details"} : Close(how, ui)

CaptionsNext ==
  \/ Mount \/ SubtitlesEnSettles \/ SubtitlesEsSettles
  \/ SelectFromMenu \/ SelectByKey \/ ToggleMenu
  \/ togglePlay \/ Escape \/ handleOverlayClick \/ handleContentClick
  \/ CloseButton \/ Unmount

SpecCaptions == Init /\ [][CaptionsNext]_vars

\* ------------------------------------------------------------- favorites

\* the request toggleFavorite sends from a closure c, s being the state shown
ToggleRequest(c, s) ==
  [kind |-> IF c.isFavorite /\ c.favoriteId # NoId THEN "delete" ELSE "create",
   id |-> IF c.isFavorite /\ c.favoriteId # NoId THEN c.favoriteId ELSE NoId,
   seen |-> <<s.isFavorite, s.favoriteId>>,
   phase |-> "sent", ok |-> FALSE, result |-> NoId]

\* the guard of toggleFavorite and of fetchFavoriteStatus: no user id found
NoUserNever(uid) == FALSE
NoUser(uid) == uid = NoId

\* favorite button, key F
toggleFavorite ==
  /\ mounted = "yes"
  /\ \E src \in {"button", "key"} :
       /\ src = "key" => keyListener
       /\ IF NoUser(userId)
            THEN UNCHANGED requests
            ELSE /\ Cardinality({i \in 1..Len(requests) : requests[i].kind # "status"}) < MaxInflight
                 /\ requests' = Append(requests, ToggleRequest(IF src = "key" THEN hk ELSE ui, ui))
       /\ lastOp' = <<"toggleFavorite", src>>
  /\ UNCHANGED <<mounted, ui, hk, video, textTracks, rafRef, rafPending, mediaListeners,
                 keyListener, posterTimeout, closeCalls, subFetch, blobUrls, env, lateWrite>>

\* the backend handles request i: it answers from, and changes, the store
ServerHandles ==
  /\ \E i \in 1..Len(requests), ok \in BOOLEAN :
       LET r == requests[i]
       IN /\ r.phase = "sent"
          /\ CASE r.kind = "status" ->
                    /\ \E found \in (IF store = {} THEN {NoId} ELSE store) :
                         requests' = [requests EXCEPT ![i] =
                           [r EXCEPT !.phase = "answered", !.ok = ok,
                                     !.result = IF ok THEN found ELSE NoId]]
                    /\ UNCHANGED <<store, nextFavId>>
               [] r.kind = "create" ->
                    IF ok /\ nextFavId <= MaxFavId
                      THEN /\ store' = store \cup {nextFavId}
                           /\ nextFavId' = nextFavId + 1
                           /\ requests' = [requests EXCEPT ![i] =
                                [r EXCEPT !.phase = "answered", !.ok = TRUE,
                                          !.result = nextFavId]]
                      ELSE /\ requests' = [requests EXCEPT ![i] =
                                [r EXCEPT !.phase = "answered", !.ok = FALSE]]
                           /\ UNCHANGED <<store, nextFavId>>
               [] OTHER ->
                    /\ store' = IF ok THEN store \ {r.id} ELSE store
                    /\ requests' = [requests EXCEPT ![i] =
                         [r EXCEPT !.phase = "answered", !.ok = ok]]
                    /\ UNCHANGED nextFavId
  /\ lastOp' = <<"server">>
  /\ UNCHANGED <<mounted, ui, hk, video, textTracks, rafRef, rafPending, mediaListeners,
                 keyListener, posterTimeout, closeCalls, subFetch, blobUrls, userId,
                 onFavoriteChange, page, hist, lateWrite>>

Remove(seq, i) == [j \in 1..(Len(seq) - 1) |-> IF j < i THEN seq[j] ELSE seq[j + 1]]

\* the calls a continuation makes to the listener
Calls(call) == IF onFavoriteChange = "absent" THEN <<>> ELSE <<call>>

\* the state after the continuation of fetchFavoriteStatus
StatusState(s, r) ==
  IF ~r.ok THEN s
  ELSE IF r.result # NoId
    THEN [s EXCEPT !.isFavorite = TRUE, !.favoriteId = r.result]
    ELSE [s EXCEPT !.isFavorite = FALSE, !.favoriteId = NoId]

\* the state after the create branch of toggleFavorite
CreatedStateNoId(s, r) == [s EXCEPT !.isFavorite = TRUE]
CreatedState(s, r) == [s EXCEPT !.isFavorite = TRUE, !.favoriteId = r.result]

\* the state after the delete branch: the listener runs between the two sets
DeletedState(s, r) ==
  IF onFavoriteChange = "throws"
    THEN [s EXCEPT !.isFavorite = FALSE]
    ELSE [s EXCEPT !.isFavorite = FALSE, !.favoriteId = NoId]

\* the state after the continuation of toggleFavorite: a rejected request
\* lands in the catch block, which only logs
ToggleStateOptimistic(s, r) ==
  IF r.kind = "create" THEN CreatedState(s, r) ELSE DeletedState(s, r)
ToggleState(s, r) ==
  IF ~r.ok THEN s
  ELSE IF r.kind = "create" THEN CreatedState(s, r) ELSE DeletedState(s, r)

\* what the delete branch passes to the listener
DeletedCall(s, r) == <<FALSE, r.id>>

\* handleFavoriteChange of FavoritesPage: the marker after the calls
handleFavoriteChange(prev, calls) ==
  IF FavoritesHost /\ calls # <<>> THEN ~calls[1][1] ELSE prev

\* the answer to request i reaches the client and its continuation runs; the
\* host renders in the same batch and passes its new handleModalClose
FavoriteSettles ==
  /\ \E i \in 1..Len(requests) :
       LET r == requests[i]
           t == IF r.kind = "status" THEN StatusState(ui, r) ELSE ToggleState(ui, r)
           calls == CASE r.kind = "status" -> <<>>
                      [] r.kind = "create" ->
                           IF r.ok THEN Calls(<<TRUE, r.result>>) ELSE <<>>
                      [] OTHER -> IF r.ok THEN Calls(DeletedCall(ui, r)) ELSE <<>>
           marker == handleFavoriteChange(removedDuringModal, calls)
       IN /\ r.phase = "answered"
          /\ requests' = Remove(requests, i)
          /\ removedDuringModal' = marker
          /\ lastNotified' = IF calls = <<>> THEN lastNotified
                             ELSE IF calls[1][1] THEN "fav" ELSE "unfav"
          /\ anyFailure' = (anyFailure \/ ~r.ok)
          /\ IF mounted = "yes"
               THEN Render(ui, [t EXCEPT !.onClose = marker], video, FALSE)
               ELSE UNCHANGED <<ui, hk, video, rafRef, rafPending>>
          /\ lastOp' = <<"settled", r, calls, mounted>>
  /\ UNCHANGED <<mounted, textTracks, mediaListeners, keyListener, posterTimeout,
                 closeCalls, subFetch, blobUrls, remote, videos, otherModal, lateWrite>>

\* the handlers that send, answer and settle favorite requests, and the ways
\* the modal goes away while they are in flight
FavoriteNext ==
  \/ Mount \/ toggleFavorite \/ ServerHandles \/ FavoriteSettles
  \/ Escape \/ CloseButton \/ Unmount

SpecFavorite == Init /\ [][FavoriteNext]_vars

MediaNext ==
  \/ Mount \/ OnLoaded \/ OnTime \/ Tick \/ Advance \/ OnEnd \/ PosterTimeout
  \/ togglePlay \/ handleForward \/ handleBackward \/ handleProgressClick
  \/ ToggleMenu \/ Escape \/ CloseButton \/ Unmount

SpecMedia == Init /\ [][MediaNext]_vars

\* the loading overlay: the handlers that end it or remove the modal; a
\* pending timer of the browser does fire
LoadingNext ==
  \/ Mount \/ OnLoaded \/ PosterTimeout \/ OnTime \/ Tick \/ togglePlay
  \/ Escape \/ CloseButton \/ Unmount

SpecLoading == Init /\ [][LoadingNext]_vars /\ WF_vars(PosterTimeout)

\* ------------------------------------------------------- favorites page

\* "Ver preview" of another list entry, once the modal of the movie is closed
OpenOther ==
  /\ FavoritesHost /\ mounted = "gone" /\ ~otherModal
  /\ otherModal' = TRUE
  /\ lastOp' = <<"openOther">>
  /\ UNCHANGED <<mounted, ui, hk, video, textTracks, rafRef, rafPending, mediaListeners,
                 keyListener, posterTimeout, closeCalls, subFetch, blobUrls, remote,
                 requests, videos, removedDuringModal, hist, lateWrite>>

\* the close button of that other modal: handleModalClose of the last render
CloseOther ==
  /\ otherModal
  /\ handleModalClose([onClose |-> removedDuringModal])
  /\ otherModal' = FALSE
  /\ lastOp' = <<"closeOther", videos>>
  /\ UNCHANGED <<mounted, ui, hk, video, textTracks, rafRef, rafPending, mediaListeners,
                 keyListener, posterTimeout, closeCalls, subFetch, blobUrls, remote,
                 requests, hist, lateWrite>>

\* the favorites page has loaded its list and shows the movie in it
InitPage ==
  /\ Init
  /\ FavoritesHost /\ ~NoUser(userId) /\ videos # {}

PageNext ==
  \/ Mount \/ toggleFavorite \/ ServerHandles \/ FavoriteSettles
  \/ ToggleMenu \/ Escape \/ CloseButton \/ OpenOther \/ CloseOther

SpecPage == InitPage /\ [][PageNext]_vars
\* --------------------------------------------------------------- claims

Showing == {l \in Langs : textTracks[l] = "showing"}

\* C1: after any sequence of selectSubtitle calls and caption-fetch
\* completions at most one text track is showing, and right after
\* selectSubtitle(null) none is.
C1_ExclusiveCaption ==
  /\ Cardinality(Showing) <= 1
  /\ (lastOp[1] = "select" /\ lastOp[2] = NoLang) => Showing = {}

\* one track was showing, the other language was then selected
C1_Witness ==
  /\ lastOp[1] = "select"
  /\ textTracks["en"] = "showing"
  /\ textTracks["es"] = "hidden"

\* C2: favoriteId is non-null exactly when isFavorite is true, in every state
\* the component can be observed in, whatever the listener does.
C2_FavoriteInvariant == (ui.favoriteId # NoId) <=> ui.isFavorite

SeekOps == {"forward", "backward", "progressClick"}

\* C3: after every seek operation, also before the metadata is loaded, the
\* media position and the displayed position lie between 0 and duration.
C3_PositionBounds ==
  lastOp[1] \in SeekOps =>
    /\ 0 <= video.currentTime /\ video.currentTime <= ui.duration
    /\ 0 <= ui.current /\ ui.current <= ui.duration

\* a forward seek from the button that had to be clamped to the duration
C3_Witness ==
  /\ lastOp[1] = "forward" /\ lastOp[2] = "button"
  /\ lastOp[3] + SkipSeconds > lastOp[4]
  /\ lastOp[4] > 0
  /\ video.currentTime = ui.duration

\* C4: the animation-frame loop is scheduled exactly when the session is in
\* Ready-Playing: mounted, metadata loaded, the media playing.
C4_SamplerLifecycle ==
  (rafPending # {}) <=>
    (mounted = "yes" /\ video.metaLoaded /\ ~video.paused /\ ui.isPlaying)

\* C5: once the component has unmounted nothing writes the position state:
\* no animation frame is left pending and no setCurrent has run since.
C5_UnmountCancelsLoop ==
  /\ ~lateWrite
  /\ mounted = "gone" => (rafPending = {} /\ ~mediaListeners)

\* the component was unmounted while the media was playing
C5_Witness ==
  /\ mounted = "gone"
  /\ ~video.paused /\ ui.isPlaying /\ video.metaLoaded

\* a toggleFavorite call has just settled with the store's acceptance, in a
\* mounted component whose host listens
ToggleSettled ==
  /\ lastOp[1] = "settled"
  /\ lastOp[2].kind # "status"
  /\ lastOp[2].ok
  /\ lastOp[4] = "yes"
  /\ onFavoriteChange # "absent"

\* C6: a toggleFavorite call made at isFavorite=false, favoriteId=null whose
\* create request returns id X ends with isFavorite=true, favoriteId=X and
\* exactly one listener call (movieId, true, X).
C6_AddFavorite ==
  (ToggleSettled /\ lastOp[2].seen = <<FALSE, NoId>>) =>
    /\ lastOp[2].kind = "create"
    /\ ui.isFavorite
    /\ ui.favoriteId = lastOp[2].result
    /\ lastOp[3] = << <<TRUE, lastOp[2].result>> >>

C6_Witness ==
  /\ ToggleSettled /\ lastOp[2].seen = <<FALSE, NoId>>
  /\ ui.isFavorite /\ ui.favoriteId = lastOp[2].result
  /\ ui.favoriteId \in store

\* C7: a toggleFavorite call made at isFavorite=true, favoriteId=X whose delete
\* is accepted deletes X, ends with isFavorite=false, favoriteId=null and
\* exactly one listener call (movieId, false, X).
C7_RemoveFavorite ==
  (ToggleSettled /\ lastOp[2].seen[1] /\ lastOp[2].seen[2] # NoId) =>
    /\ lastOp[2].kind = "delete"
    /\ lastOp[2].id = lastOp[2].seen[2]
    /\ ~ui.isFavorite
    /\ ui.favoriteId = NoId
    /\ lastOp[3] = << <<FALSE, lastOp[2].seen[2]>> >>

\* C8: every seek forward sets the position to min(position + 10, duration)
\* and every seek backward to max(position - 10, 0), duration being the value
\* the component shows at the time of the action.
C8_RelativeSeek ==
  /\ lastOp[1] = "forward" =>
       video.currentTime = Min(lastOp[3] + SkipSeconds, lastOp[4])
  /\ lastOp[1] = "backward" =>
       video.currentTime = Max(lastOp[3] - SkipSeconds, 0)

EscapeStep == lastOp' \in {<<"escape", "menu">>, <<"close", "escape">>}

\* C9: an Escape press with the subtitle menu open closes the menu and does
\* not call onClose; with the menu closed it calls onClose; never both.
C9_EscapePriority ==
  [][EscapeStep =>
       IF ui.showSubtitleMenu
         THEN /\ ~ui'.showSubtitleMenu
              /\ closeCalls' = closeCalls
              /\ mounted' = "yes"
         ELSE /\ closeCalls' = closeCalls + 1
              /\ ui'.showSubtitleMenu = ui.showSubtitleMenu]_vars

\* Escape has just closed the menu and the modal is still open
C9_Witness ==
  /\ lastOp = <<"escape", "menu">>
  /\ ~ui.showSubtitleMenu
  /\ mounted = "yes" /\ closeCalls = 0

Observable ==
  <<textTracks, ui.selectedSubtitle, ui.captionsEnabled, ui.showSubtitleMenu>>

\* C10: a second selectSubtitle(lang) right after a first one with the same
\* lang leaves track modes, selectedSubtitle, captionsEnabled and the menu
\* as the first call left them.
C10_IdempotentSelect ==
  [][(lastOp'[1] = "select" /\ lastOp'[3] = 2) => Observable' = Observable]_vars

\* the same language was selected twice in a row and its track is showing
C10_Witness ==
  /\ lastOp = <<"select", "es", 2>>
  /\ textTracks["es"] = "showing"
  /\ ui.captionsEnabled
\* C11: when the request of one language fails and the other returned
\* non-empty text, the language that succeeded is stored in subtitleUrls and
\* offered in the menu.
C11_IndependentFetches ==
  (lastOp[1] = "subtitles" /\ lastOp[2] = "es" /\ lastOp[3] = "fail"
     /\ lastOp[4] = "yes" /\ subFetch.en) =>
    /\ "en" \in ui.subtitleUrls
    /\ "en" \in MenuOptions(ui)

\* C12: when the modal unmounts every blob URL fetchSubtitles created has
\* been revoked.
C12_CaptionTeardown ==
  lastOp[1] \in {"unmount", "close"} => blobUrls = {}
FavoriteShown(s) == <<s.isFavorite, s.favoriteId>>

\* C13: a toggleFavorite whose create or delete request fails changes neither
\* isFavorite nor favoriteId and calls no listener, and the call itself
\* changes neither value before its request settles.
C13_MutationFailure ==
  [][/\ (lastOp'[1] = "settled" /\ lastOp'[2].kind # "status" /\ ~lastOp'[2].ok) =>
          (FavoriteShown(ui') = FavoriteShown(ui) /\ lastOp'[3] = <<>>)
     /\ lastOp'[1] = "toggleFavorite" => FavoriteShown(ui') = FavoriteShown(ui)]_vars

\* a delete request of a mounted, favorited modal has just failed
C13_Witness ==
  /\ lastOp[1] = "settled" /\ lastOp[2].kind = "delete" /\ ~lastOp[2].ok
  /\ lastOp[4] = "yes"
  /\ ui.isFavorite /\ ui.favoriteId = lastOp[2].id
  /\ onFavoriteChange = "returns"

\* C14: with no user id in localStorage neither the status load nor
\* toggleFavorite sends a request, no continuation runs, no listener is
\* called and isFavorite and favoriteId keep their initial values.
C14_Unauthenticated ==
  userId = NoId =>
    /\ requests = <<>>
    /\ lastOp[1] # "settled"
    /\ FavoriteShown(ui) = <<FALSE, NoId>>

\* toggleFavorite has just run without a user
C14_Witness ==
  /\ userId = NoId
  /\ lastOp[1] = "toggleFavorite"
  /\ mounted = "yes"
\* C15: a continuation that runs after the modal has unmounted changes no
\* component state, creates no blob URL and does not call onFavoriteChange.
C15_DiscardAfterUnmount ==
  [][mounted = "gone" =>
       /\ ui' = ui
       /\ blobUrls' \subseteq blobUrls
       /\ lastOp'[1] = "settled" => lastOp'[3] = <<>>]_vars

StatusInFlight == \E i \in 1..Len(requests) : requests[i].kind = "status"
MutationInFlight == \E i \in 1..Len(requests) : requests[i].kind # "status"

\* C16: no create or delete request is in flight while the initial
\* favorite-status request is still in flight.
C16_Serialized == ~(StatusInFlight /\ MutationInFlight)
\* the state selectSubtitle(null) leaves: captions off
CaptionsOff ==
  /\ Showing = {}
  /\ ~ui.captionsEnabled
  /\ ui.selectedSubtitle = NoLang

\* C17: selectSubtitle(lang) with no track available for lang leaves what
\* selectSubtitle(null) leaves: no track showing, captionsEnabled false and
\* selectedSubtitle null.
C17_UnavailableIsNull ==
  (lastOp[1] = "select" /\ lastOp[2] # NoLang /\ textTracks[lastOp[2]] = "absent") =>
    CaptionsOff

\* one track is showing and selectedSubtitle names it, or captions are off
CaptionsConsistent ==
  \/ \E l \in Langs : Showing = {l} /\ ui.selectedSubtitle = l
  \/ CaptionsOff

\* C18: when the caption fetch settles after the user already selected a
\* language, the state is consistent: the selected track is showing, or
\* nothing is showing and nothing is marked as selected.
C18_LateFetch ==
  (lastOp[1] = "subtitles" /\ subFetch.at = "done" /\ lastOp[4] = "yes") =>
    CaptionsConsistent
OverlayStep == lastOp' \in {<<"overlay", "menu">>, <<"close", "overlay">>}
ContentStep == lastOp'[1] = "content" \/ lastOp' = <<"close", "content">>

\* C19: a click on the overlay closes only the subtitle menu when it is open
\* and calls onClose when it is closed; a click inside the modal content
\* reaches no overlay handler: it calls no onClose and changes nothing.
C19_BackdropPriority ==
  [][/\ OverlayStep =>
          IF ui.showSubtitleMenu
            THEN /\ ~ui'.showSubtitleMenu
                 /\ closeCalls' = closeCalls
                 /\ mounted' = "yes"
            ELSE closeCalls' = closeCalls + 1
     /\ ContentStep =>
          /\ closeCalls' = closeCalls
          /\ mounted' = mounted
          /\ ui' = ui]_vars

\* a click inside the content while the menu is open left both open
C19_Witness ==
  /\ lastOp = <<"content", "stopped", "content">>
  /\ ui.showSubtitleMenu
  /\ mounted = "yes" /\ closeCalls = 0
PlayRequests == {"mount", "loadedmetadata", "togglePlay"}

\* C20: after an operation that requests play (mount, metadata load,
\* togglePlay) isPlaying is true only if the media is not paused: a rejected
\* play() leaves isPlaying false.
C20_PlayState ==
  (mounted = "yes" /\ lastOp[1] \in PlayRequests /\ ui.isPlaying) => ~video.paused

\* C21: while the modal is open a listener call leaves the videos list as it
\* is; the close removes the movie from the list exactly when the last call
\* of the session reported it as not favorited.
C21_DeferredRemoval ==
  [][/\ (mounted = "yes" /\ mounted' = "yes") => videos' = videos
     /\ lastOp'[1] = "close" =>
          videos' = IF lastNotified = "unfav" THEN {} ELSE videos]_vars

\* C22: loadedmetadata clears the loading overlay; a mounted session that
\* shows the overlay leaves it, by the fallback timer when the event never
\* arrives; after unmount no timer is pending.
C22_LoadingEnds ==
  /\ [][lastOp'[1] = "loadedmetadata" => ~ui'.loadingPoster]_vars
  /\ [](mounted = "gone" => ~posterTimeout)
  /\ (mounted = "yes" /\ ui.loadingPoster) ~> (mounted = "gone" \/ ~ui.loadingPoster)

\* the timer ended the overlay of a session whose metadata never arrived
C22_Witness ==
  /\ lastOp[1] = "posterTimeout"
  /\ mounted = "yes" /\ ~video.metaLoaded
  /\ ~ui.loadingPoster

\* the state the 'ended' event leaves: paused at the end of the stream
Ended ==
  /\ mounted = "yes" /\ video.metaLoaded
  /\ video.paused /\ ~ui.isPlaying
  /\ video.currentTime = video.duration

\* C23: the 'ended' event leaves isPlaying false and no animation frame
\* pending; from that state togglePlay sets isPlaying true and schedules the
\* loop again, and a seek backward moves the position below the duration.
C23_EndOfStream ==
  [][/\ lastOp'[1] = "ended" => (~ui'.isPlaying /\ rafPending' = {} /\ Ended')
     /\ (Ended /\ lastOp'[1] = "togglePlay") => (ui'.isPlaying /\ rafPending' # {})
     /\ (Ended /\ lastOp'[1] = "backward") =>
          (video'.currentTime < video.duration /\ video'.currentTime >= 0)]_vars

\* the stream has just ended
C23_Witness ==
  /\ lastOp[1] = "ended"
  /\ Ended /\ rafPending = {}
  /\ ui.current = video.duration

\* the tracks a press of key would leave showing in the current state
ShownAfterKey(key) ==
  {l \in Langs : SelectTracks(textTracks, KeyArg(hk, key))[l] = "showing"}

\* C24: wherever the keydown listener is attached, a press of S would leave
\* the Spanish track as the one showing track when that track exists, a press
\* of D the English track when that one exists, and a press of N no track.
C24_DirectSelect ==
  (mounted = "yes" /\ keyListener) =>
    /\ textTracks["es"] # "absent" => ShownAfterKey("s") = {"es"}
    /\ textTracks["en"] # "absent" => ShownAfterKey("d") = {"en"}
    /\ ShownAfterKey("n") = {}

\* C25: whichever caption tracks exist, the track that selectSubtitle(lang)
\* leaves showing is the track of lang, never the track of the other language.
C25_TrackLanguage ==
  (lastOp[1] = "select" /\ lastOp[2] # NoLang) => Showing \subseteq {lastOp[2]}

\* C26: after any selectSubtitle calls and caption-fetch completions,
\* captionsEnabled is true exactly when a track is showing and
\* selectedSubtitle is non-null exactly when captionsEnabled is true.
C26_CaptionFlags ==
  /\ ui.captionsEnabled <=> (Showing # {})
  /\ (ui.selectedSubtitle # NoLang) <=> ui.captionsEnabled

\* C27: whatever the interleaving of toggleFavorite calls and request
\* completions, the remote store never holds more than one favorite record
\* of the user for the movie.
C27_NoDuplicate == Cardinality(store) <= 1

\* C28: in a mounted session of a user, once the status load and every
\* toggle request have settled and none has failed, isFavorite is true
\* exactly when the remote store holds a favorite record of the movie, and
\* favoriteId is then the id of such a record.
C28_Convergence ==
  (mounted = "yes" /\ ~NoUser(userId) /\ requests = <<>> /\ ~anyFailure) =>
    /\ ui.isFavorite <=> (store # {})
    /\ ui.isFavorite => ui.favoriteId \in store

\* an accepted un-favorite request of the modal settles after the modal closed
LateUnfavorite ==
  /\ lastOp'[1] = "settled" /\ lastOp'[4] = "gone"
  /\ lastOp'[2].kind = "delete" /\ lastOp'[2].ok

\* C29: when an accepted un-favorite request settles after the modal has
\* closed and nothing else is in flight, the movie leaves the videos list
\* with no other modal opened; the close of a later modal session removes
\* nothing from the list.
C29_LateNotification ==
  [][/\ (LateUnfavorite /\ requests' = <<>>) => videos' = {}
     /\ lastOp'[1] = "closeOther" => videos' = videos]_vars

\* C30: when the modal closes with every toggle settled, each entry of the
\* movie still in the videos list carries the id of a favorite record that
\* the remote store holds.
C30_ListRecordId ==
  (lastOp[1] = "close" /\ requests = <<>>) => videos \subseteq store
====
